---- MODULE Spec2Model ----
(***************************************************************************)
(* Wikipedia category word-frequency analyzer: the on-disk cache           *)
(* (wiki_analyzer.py: get_cache_filename, load_from_cache, save_to_cache), *)
(* category resolution (get_pages_in_category), text normalisation         *)
(* (process_text), aggregation (analyze_category) and the /analyze route   *)
(* of app.py.                                                              *)
(*                                                                         *)
(* Text is a sequence of one-character strings over printable ASCII, so    *)
(* that lower(), title(), replace(), split() and the regular expressions   *)
(* are computed character by character as Python computes them.            *)
(***************************************************************************)
EXTENDS Integers, Sequences, FiniteSets, TLC

VARIABLES clock, cache, pc, req, ret, file, wpc, woff, rd

vars == <<clock, cache, pc, req, ret, file, wpc, woff, rd>>

(***************************************************************************)
(* Characters                                                              *)
(***************************************************************************)

\* Printable ASCII, code points 32..126 in order ("bslash" and "btick" stand
\* for the backslash, code point 92, and the back quote, code point 96).
Ascii == <<" ","!","\"","#","$","%","&","'","(",")","*","+",",","-",".","/","0","1","2","3","4","5","6","7","8","9",":",";","<","=",">","?","@","A","B","C","D","E","F","G","H","I","J","K","L","M","N","O","P","Q","R","S","T","U","V","W","X","Y","Z","[","bslash","]","^","_","btick","a","b","c","d","e","f","g","h","i","j","k","l","m","n","o","p","q","r","s","t","u","v","w","x","y","z","{","|","}","~">>

Chars == {Ascii[i] : i \in DOMAIN Ascii}

\* The code point of a character (its UTF-8 byte, the text being ASCII).
OrdTable == [ch \in Chars |-> 31 + CHOOSE i \in DOMAIN Ascii : Ascii[i] = ch]

Ord(ch) == OrdTable[ch]

Chr(n) == Ascii[n - 31]

IsUpper(ch) == Ord(ch) >= 65 /\ Ord(ch) <= 90

IsLower(ch) == Ord(ch) >= 97 /\ Ord(ch) <= 122

IsCased(ch) == IsUpper(ch) \/ IsLower(ch)

IsDigit(ch) == Ord(ch) >= 48 /\ Ord(ch) <= 57

IsSpace(ch) == ch = " "

\* string.punctuation: every printable ASCII character that is neither a
\* letter, nor a digit, nor the space (the underscore included).
IsPunct(ch) == ~IsCased(ch) /\ ~IsDigit(ch) /\ ~IsSpace(ch)

ToLower(ch) == IF IsUpper(ch) THEN Chr(Ord(ch) + 32) ELSE ch

ToUpper(ch) == IF IsLower(ch) THEN Chr(Ord(ch) - 32) ELSE ch

(***************************************************************************)
(* Python str methods                                                      *)
(***************************************************************************)

\* str.lower()
Lower(s) == [i \in DOMAIN s |-> ToLower(s[i])]

\* str.replace(a, b) for one-character a and b
Replace(s, a, b) == [i \in DOMAIN s |-> IF s[i] = a THEN b ELSE s[i]]

\* str.title(): a cased character is upper-cased when it follows an uncased
\* character (or starts the string) and lower-cased when it follows a cased one.
Title(s) ==
    [i \in DOMAIN s |->
        IF ~IsCased(s[i]) THEN s[i]
        ELSE IF i > 1 /\ IsCased(s[i - 1]) THEN ToLower(s[i])
        ELSE ToUpper(s[i])]

\* str.startswith(p)
StartsWith(s, p) == Len(s) >= Len(p) /\ SubSeq(s, 1, Len(p)) = p

\* str.split(): maximal runs of non-whitespace characters, in order.
RECURSIVE SplitFrom(_, _, _, _)
SplitFrom(s, i, cur, acc) ==
    IF i > Len(s)
    THEN IF cur = <<>> THEN acc ELSE Append(acc, cur)
    ELSE IF IsSpace(s[i])
         THEN SplitFrom(s, i + 1, <<>>, IF cur = <<>> THEN acc ELSE Append(acc, cur))
         ELSE SplitFrom(s, i + 1, Append(cur, s[i]), acc)

Split(s) == SplitFrom(s, 1, <<>>, <<>>)

(***************************************************************************)
(* process_text                                                            *)
(***************************************************************************)

\* stopwords.words('english') comes from the NLTK corpus, outside the
\* repository; the words below are the ones the analysed texts meet.
StopWords ==
    { <<"l","i","k","e">>, <<"a","n","d">>, <<"a","r","e">>, <<"t","o","o">>,
      <<"i">>, <<"a">> }

\* re.sub('[<punctuation>]', ' ', text)
RemovePunctuation(s) == [i \in DOMAIN s |-> IF IsPunct(s[i]) THEN " " ELSE s[i]]

\* re.sub(r'\d+', '', text): every run of digits is deleted, closing the gap.
RemoveNumbers(s) == SelectSeq(s, LAMBDA ch : ~IsDigit(ch))

\* the list comprehension's condition
KeepWord(word) == word \notin StopWords /\ Len(word) > 1

process_text(text) ==
    SelectSeq(Split(RemoveNumbers(RemovePunctuation(Lower(text)))), KeepWord)

(***************************************************************************)
(* collections.Counter: word/count pairs in order of first insertion       *)
(***************************************************************************)

EmptyCounter == <<>>

Keys(counter) == {counter[i].word : i \in DOMAIN counter}

\* counter[w], 0 for a missing key
CountOf(counter, w) ==
    IF w \in Keys(counter)
    THEN (CHOOSE e \in {counter[i] : i \in DOMAIN counter} : e.word = w).count
    ELSE 0

\* the mapping a counter stands for (dict equality ignores order)
AsMap(counter) == [w \in Keys(counter) |-> CountOf(counter, w)]

\* counter[w] += 1
Incr(counter, w) ==
    IF w \in Keys(counter)
    THEN [i \in DOMAIN counter |->
            IF counter[i].word = w
            THEN [word |-> w, count |-> counter[i].count + 1]
            ELSE counter[i]]
    ELSE Append(counter, [word |-> w, count |-> 1])

\* Counter(iterable)
RECURSIVE CounterFrom(_, _, _)
CounterFrom(words, i, acc) ==
    IF i > Len(words) THEN acc
    ELSE CounterFrom(words, i + 1, Incr(acc, words[i]))

Counter(words) == CounterFrom(words, 1, EmptyCounter)

\* sorted(items, key=count, reverse=True): stable, so equal counts keep
\* their insertion order.
RECURSIVE InsertByCount(_, _)
InsertByCount(sorted, e) ==
    IF sorted = <<>> THEN <<e>>
    ELSE IF Head(sorted).count >= e.count
         THEN <<Head(sorted)>> \o InsertByCount(Tail(sorted), e)
         ELSE <<e>> \o sorted

RECURSIVE SortByCount(_, _, _)
SortByCount(counter, i, acc) ==
    IF i > Len(counter) THEN acc
    ELSE SortByCount(counter, i + 1, InsertByCount(acc, counter[i]))

\* Counter.most_common(n): heapq.nlargest(n, ...), empty for n <= 0
most_common(counter, n) ==
    LET s == SortByCount(counter, 1, <<>>)
    IN  IF n <= 0 THEN <<>>
        ELSE SubSeq(s, 1, IF n < Len(s) THEN n ELSE Len(s))

(***************************************************************************)
(* Time.  datetime values are counted in ticks, TicksPerDay ticks to the   *)
(* day, from the instant the model starts at.                              *)
(***************************************************************************)

TicksPerDay == 2

MaxDays == 8

MaxClock == MaxDays * TicksPerDay

\* the retention window of load_from_cache, in days
RetentionDays == 7

\* whole days from 2000-01-01, the timestamp a record without one is given,
\* to the instant the model starts at (2024-08-22; any later start does too)
DaysSince2000 == 9000

DefaultTimestamp == 0 - DaysSince2000 * TicksPerDay

\* timedelta.days: whole days, rounded down
Days(ticks) == ticks \div TicksPerDay

(***************************************************************************)
(* Cache files.  The cache directory is a function from file names to file *)
(* contents; a file is what json.load makes of it.                         *)
(***************************************************************************)

\* category.encode('utf-8')
Encode(s) == [i \in DOMAIN s |-> Ord(s[i])]

get_cache_filenameMut(category) ==
    [md5 |-> Encode(Replace(Lower(category), " ", "_"))]

\* hashlib.md5(...).hexdigest(): a digest of the exact bytes, taken to be
\* free of collisions
get_cache_filename(category) == [md5 |-> Encode(category)]

TsAbsent == [t |-> "absent"]
TsText == [t |-> "text"]
TsIso(at) == [t |-> "iso", at |-> at]

WcAbsent == [w |-> "absent"]
WcNull == [w |-> "null"]
WcNumber == [w |-> "number"]
WcList(words) == [w |-> "list", items |-> words]
WcMapping(counter) == [w |-> "mapping", items |-> counter]

\* not JSON at all (an empty or cut-off file, say)
GarbageFile == [kind |-> "garbage"]

\* JSON whose top level is an array
ArrayFile == [kind |-> "array"]

ObjectFile(category, timestamp, word_counts) ==
    [kind |-> "object", category |-> category, timestamp |-> timestamp,
     word_counts |-> word_counts]

Absent == [raised |-> "none", is_cached |-> FALSE, is_none |-> TRUE,
           word_counts |-> EmptyCounter]

Found(counter) == [raised |-> "none", is_cached |-> TRUE, is_none |-> FALSE,
                   word_counts |-> counter]

Raised(exc) == [raised |-> exc, is_cached |-> FALSE, is_none |-> TRUE,
                word_counts |-> EmptyCounter]

\* Counter(cache_data.get('word_counts', {}))
CounterOfField(wc) ==
    CASE wc.w = "absent"  -> Found(EmptyCounter)
      [] wc.w = "null"    -> Found(EmptyCounter)
      [] wc.w = "mapping" -> Found(wc.items)
      [] wc.w = "list"    -> Found(Counter(wc.items))
      [] wc.w = "number"  -> Raised("TypeError")

\* the try block of load_from_cache
LoadTry(f, now) ==
    IF f.kind = "garbage" THEN Raised("JSONDecodeError")
    ELSE IF f.kind = "array" THEN Raised("AttributeError")
    ELSE IF f.timestamp.t = "text" THEN Raised("ValueError")
    ELSE LET cache_date == IF f.timestamp.t = "absent" THEN DefaultTimestamp
                           ELSE f.timestamp.at
             days_diff == Days(now - cache_date)
         IN  IF days_diff > RetentionDays THEN Absent
             ELSE CounterOfField(f.word_counts)

load_from_cache(disk, category, now) ==
    LET cache_file == get_cache_filename(category)
    IN  IF cache_file \notin DOMAIN disk THEN Absent
        ELSE LET r == LoadTry(disk[cache_file], now)
             IN  IF r.raised # "none" THEN Absent ELSE r

\* Counter addition, used by no code path of the analyzer
RECURSIVE AddAll(_, _, _)
AddAll(counter, other, i) ==
    IF i > Len(other) THEN counter
    ELSE AddAll(
            IF other[i].word \in Keys(counter)
            THEN [j \in DOMAIN counter |->
                    IF counter[j].word = other[i].word
                    THEN [word |-> counter[j].word,
                          count |-> counter[j].count + other[i].count]
                    ELSE counter[j]]
            ELSE Append(counter, other[i]),
            other, i + 1)

save_to_cacheMut(disk, category, word_counts, now) ==
    LET cache_file == get_cache_filename(category)
        old == load_from_cache(disk, category, now)
        cache_data == ObjectFile(category, TsIso(now),
                        WcMapping(AddAll(old.word_counts, word_counts, 1)))
    IN  [k \in DOMAIN disk \cup {cache_file} |->
            IF k = cache_file THEN cache_data ELSE disk[k]]

\* open(cache_file, 'w') and json.dump, as one write
save_to_cache(disk, category, word_counts, now) ==
    LET cache_file == get_cache_filename(category)
        cache_data == ObjectFile(category, TsIso(now), WcMapping(word_counts))
    IN  [k \in DOMAIN disk \cup {cache_file} |->
            IF k = cache_file THEN cache_data ELSE disk[k]]

(***************************************************************************)
(* Inputs                                                                  *)
(***************************************************************************)

MachineLearning == <<"m","a","c","h","i","n","e","_","l","e","a","r","n","i","n","g">>
MachineLearningSp == <<"M","a","c","h","i","n","e"," ","L","e","a","r","n","i","n","g">>
PrefixedCat == <<"C","a","t","e","g","o","r","y",":","a","B"," ","c">>

Cats == <<"c","a","t","s">>
Dogs == <<"d","o","g","s">>
Pets == <<"p","e","t","s">>

\* the categories the cache is called with
CacheCategories == {MachineLearning, MachineLearningSp}

\* the tables the cache is given to store
CacheTables ==
    { <<[word |-> Cats, count |-> 4], [word |-> Dogs, count |-> 2]>>,
      <<[word |-> Pets, count |-> 1]>> }

\* what a cache file may hold that no save_to_cache wrote whole
DamagedFiles(c) ==
    { GarbageFile, ArrayFile,
      ObjectFile(c, TsAbsent, WcMapping(<<[word |-> Cats, count |-> 1]>>)),
      ObjectFile(c, TsText, WcMapping(<<[word |-> Cats, count |-> 1]>>)),
      ObjectFile(c, TsIso(0), WcAbsent),
      ObjectFile(c, TsIso(0), WcNull),
      ObjectFile(c, TsIso(0), WcNumber),
      ObjectFile(c, TsIso(0), WcList(<<Dogs, Dogs>>)) }

\* the directories a run may start from: each category's file is missing
\* or one of damaged[c]
InitialDisks(categories, damaged) ==
    { d \in UNION { [ {get_cache_filename(c) : c \in S} ->
                        UNION {damaged[c] : c \in S} ]
                    : S \in SUBSET categories } :
        \A c \in categories :
            get_cache_filename(c) \in DOMAIN d
                => d[get_cache_filename(c)] \in damaged[c] }

NoRet == [op |-> "none"]

\* the variables of the other specifications, left alone
IdlePipeline == pc = "idle" /\ req = NoRet
Writers == {"w1", "w2"}

NoFile == [exists |-> FALSE, chunks |-> <<>>]

IdleWriters ==
    /\ file = NoFile
    /\ wpc = [p \in Writers |-> "idle"]
    /\ woff = [p \in Writers |-> 0]
    /\ rd = NoRet

(***************************************************************************)
(* The cache, called directly                                              *)
(***************************************************************************)

CacheInit ==
    /\ clock = 0
    /\ cache \in InitialDisks(CacheCategories, [c \in CacheCategories |-> DamagedFiles(c)])
    /\ ret = NoRet
    /\ IdlePipeline
    /\ IdleWriters

\* The instants the cache is called at: the start and a tick later, then
\* each whole number of days from the retention window on, and a tick later.
Instants ==
    {0, 1} \cup
    { t \in { d * TicksPerDay + e : d \in RetentionDays..MaxDays, e \in {0, 1} } :
        t <= MaxClock }

\* time passes until a later instant
Tick ==
    /\ \E t \in Instants : t > clock /\ clock' = t
    /\ UNCHANGED <<cache, pc, req, ret, file, wpc, woff, rd>>

SaveToCache ==
    \E c \in CacheCategories, t \in CacheTables :
        /\ cache' = save_to_cache(cache, c, t, clock)
        /\ ret' = [op |-> "save", category |-> c, table |-> t, at |-> clock]
        /\ UNCHANGED <<clock, pc, req, file, wpc, woff, rd>>

LoadFromCache ==
    \E c \in CacheCategories :
        /\ ret' = [op |-> "load", category |-> c, at |-> clock,
                   result |-> load_from_cache(cache, c, clock),
                   after |-> IF ret.op = "save" THEN ret ELSE NoRet]
        /\ UNCHANGED <<clock, cache, pc, req, file, wpc, woff, rd>>

CacheNext == Tick \/ SaveToCache \/ LoadFromCache

SpecCache == CacheInit /\ [][CacheNext]_vars

(***************************************************************************)
(* Properties of the cache                                                 *)
(***************************************************************************)

\* the file the last load_from_cache read, when there was one
LoadedFile == cache[get_cache_filename(ret.category)]

HasFile == get_cache_filename(ret.category) \in DOMAIN cache

\* a record as save_to_cache writes them
WellFormed(f) ==
    f.kind = "object" /\ f.timestamp.t = "iso" /\ f.word_counts.w = "mapping"

\* C1 (as claimed): a well-formed record whose age exceeds 7 days is read
\* as Absent, whatever its table holds.
C1_ExpiredIsAbsent ==
    (/\ ret.op = "load"
     /\ HasFile
     /\ WellFormed(LoadedFile)
     /\ ret.at - LoadedFile.timestamp.at > RetentionDays * TicksPerDay)
        => ~ret.result.is_cached

\* C4: save_to_cache(c, t) leaves every other file as it was and replaces
\* the file of c by a record of t; a load_from_cache(c) that follows at once
\* is Found with a table equal to t.
C4_RoundTrip ==
    [][ /\ (ret'.op = "save" /\ (cache' # cache \/ ret' # ret)) =>
            LET k == get_cache_filename(ret'.category)
            IN  /\ DOMAIN cache' = DOMAIN cache \cup {k}
                /\ \A j \in DOMAIN cache : j # k => cache'[j] = cache[j]
                /\ WellFormed(cache'[k])
                /\ cache'[k].word_counts.items = ret'.table
        /\ (/\ ret'.op = "load"
            /\ ret'.after.op = "save"
            /\ ret'.after.category = ret'.category
            /\ ret'.after.at = ret'.at) =>
                /\ ret'.result.is_cached
                /\ ret'.result.word_counts = ret'.after.table
                /\ AsMap(ret'.result.word_counts) = AsMap(ret'.after.table)
      ]_vars

\* a table read back right after it replaced another category's neighbour
\* and a damaged or older file of its own
C4_Witness ==
    /\ ret.op = "load"
    /\ ret.after.op = "save"
    /\ ret.after.category = ret.category
    /\ ret.after.at = ret.at
    /\ ret.at > 0
    /\ ret.result.is_cached
    /\ ret.result.word_counts = ret.after.table
    /\ Cardinality(DOMAIN cache) = 2

\* the canonical form the claim speaks of: lower case, underscores for spaces
Canonical(category) == Replace(Lower(category), " ", "_")

\* C6 (as claimed): a record written for one spelling of a category is
\* Found when another spelling of it is read.
C6_CanonicalKey ==
    (/\ ret.op = "load"
     /\ ret.after.op = "save"
     /\ Canonical(ret.after.category) = Canonical(ret.category)
     /\ ret.after.at = ret.at)
        => ret.result.is_cached

\* C6 (amended): the key is taken from the exact category string, so a read
\* is Found only on a record written under exactly the string read.
C6_ExactKey ==
    (ret.op = "load" /\ ret.result.is_cached)
        => /\ HasFile
           /\ LoadedFile.kind = "object"
           /\ LoadedFile.category = ret.category

\* both spellings have a record of their own, and one of them is read
C6_Witness ==
    /\ ret.op = "load"
    /\ ret.category = MachineLearning
    /\ ret.result.is_cached
    /\ get_cache_filename(MachineLearningSp) \in DOMAIN cache
    /\ WellFormed(cache[get_cache_filename(MachineLearningSp)])
    /\ cache[get_cache_filename(MachineLearningSp)].category = MachineLearningSp
    /\ WellFormed(LoadedFile)

\* C9 (as claimed): load_from_cache never raises, and is Found only on a
\* record with a parseable timestamp and a word_counts mapping.
C9_MalformedIsAbsent ==
    ret.op = "load" =>
        /\ ret.result.raised = "none"
        /\ ret.result.is_cached => (HasFile /\ WellFormed(LoadedFile))

(***************************************************************************)
(* get_pages_in_category                                                   *)
(***************************************************************************)

CategoryPrefix == <<"C","a","t","e","g","o","r","y",":">>

\* the four spellings tried, in order
category_variations(category) ==
    LET stripped == IF StartsWith(category, CategoryPrefix)
                    THEN SubSeq(category, Len(CategoryPrefix) + 1, Len(category))
                    ELSE category
        c == Replace(stripped, " ", "_")
    IN  << c,
           Title(c),
           Title(Replace(c, "_", " ")),
           Replace(Title(Replace(c, "_", " ")), " ", "_") >>

NVariations == Len(category_variations(<<>>))

\* f"Category:{cat}"
CmTitle(cat) == CategoryPrefix \o cat

\* What one categorymembers query may come back with: a failed request (no
\* connection, a timeout, a 4xx or 5xx status, a body that is not JSON), a
\* JSON body without query.categorymembers, or a list of members.
FailedRequest == [kind |-> "error"]
NoMembersKey == [kind |-> "json", has_members |-> FALSE]
Members(ms) == [kind |-> "json", has_members |-> TRUE, members |-> ms]

Page(title) == [has_ns |-> TRUE, ns |-> 0, title |-> title]
Subcategory(title) == [has_ns |-> TRUE, ns |-> 14, title |-> title]
NoNamespace(title) == [has_ns |-> FALSE, ns |-> 0, title |-> title]

TwoPages == Members(<<Page("P1"), Subcategory("Category:Sub"), Page("P2")>>)
OnePage == Members(<<Page("P2")>>)
WordlessPage == Members(<<Page("P3")>>)
OnlySubcategories == Members(<<Subcategory("Category:Sub")>>)
BrokenMember == Members(<<Page("P1"), NoNamespace("P2")>>)

Responses ==
    { FailedRequest, NoMembersKey, TwoPages, OnePage, WordlessPage,
      OnlySubcategories, BrokenMember }

RECURSIVE CollectPagesMut(_, _, _)
CollectPagesMut(members, i, pages) ==
    IF i > Len(members) THEN [raised |-> FALSE, pages |-> pages]
    ELSE IF ~members[i].has_ns THEN [raised |-> TRUE, pages |-> <<>>]
    ELSE CollectPagesMut(members, i + 1, Append(pages, members[i].title))

\* the loop over data["query"]["categorymembers"]
RECURSIVE CollectPages(_, _, _)
CollectPages(members, i, pages) ==
    IF i > Len(members) THEN [raised |-> FALSE, pages |-> pages]
    ELSE IF ~members[i].has_ns THEN [raised |-> TRUE, pages |-> <<>>]
    ELSE CollectPages(members, i + 1,
            IF members[i].ns = 0 THEN Append(pages, members[i].title)
            ELSE pages)

TryVariationMut(r) ==
    IF r.kind = "error" THEN [raised |-> TRUE, pages |-> <<>>]
    ELSE IF ~r.has_members THEN [raised |-> FALSE, pages |-> <<>>]
    ELSE CollectPagesMut(r.members, 1, <<>>)

\* the try block of one round of the loop over the variations
TryVariation(r) ==
    IF r.kind = "error" THEN [raised |-> TRUE, pages |-> <<>>]
    ELSE IF ~r.has_members THEN [raised |-> FALSE, pages |-> <<>>]
    ELSE CollectPages(r.members, 1, <<>>)

\* the loop over the variations; resp[i] is what the i-th query would come
\* back with, queries the cmtitle of every query sent
RECURSIVE ProbeFrom(_, _, _, _)
ProbeFrom(variations, resp, i, queries) ==
    IF i > Len(variations) THEN [pages |-> <<>>, queries |-> queries]
    ELSE LET sent == Append(queries, CmTitle(variations[i]))
             t == TryVariation(resp[i])
         IN  IF ~t.raised /\ t.pages # <<>>
             THEN [pages |-> t.pages, queries |-> sent]
             ELSE ProbeFrom(variations, resp, i + 1, sent)

get_pages_in_category(category, resp) ==
    ProbeFrom(category_variations(category), resp, 1, <<>>)

(***************************************************************************)
(* get_pages_in_category, called on its own                                *)
(***************************************************************************)

PageCategories == {MachineLearning, MachineLearningSp, PrefixedCat}

PagesInit ==
    /\ clock = 0
    /\ cache = <<>>
    /\ pc = "call"
    /\ req \in [category : PageCategories, resp : [1..NVariations -> Responses]]
    /\ ret = NoRet
    /\ IdleWriters

GetPagesInCategory ==
    /\ pc = "call"
    /\ pc' = "returned"
    /\ ret' = [op |-> "pages", category |-> req.category, resp |-> req.resp,
               result |-> get_pages_in_category(req.category, req.resp)]
    /\ UNCHANGED <<clock, cache, req, file, wpc, woff, rd>>

PagesNext == GetPagesInCategory

SpecPages == PagesInit /\ [][PagesNext]_vars

\* the cmtitles the claim's four variants come to, for each input
Q_machine_learning == <<"C","a","t","e","g","o","r","y",":","m","a","c","h","i","n","e","_","l","e","a","r","n","i","n","g">>
Q_Machine_Learning == <<"C","a","t","e","g","o","r","y",":","M","a","c","h","i","n","e","_","L","e","a","r","n","i","n","g">>
Q_MachineSpLearning == <<"C","a","t","e","g","o","r","y",":","M","a","c","h","i","n","e"," ","L","e","a","r","n","i","n","g">>
Q_aB_c == <<"C","a","t","e","g","o","r","y",":","a","B","_","c">>
Q_Ab_C == <<"C","a","t","e","g","o","r","y",":","A","b","_","C">>
Q_AbSpC == <<"C","a","t","e","g","o","r","y",":","A","b"," ","C">>

ExpectedQueries(category) ==
    CASE category = MachineLearning ->
            <<Q_machine_learning, Q_Machine_Learning, Q_MachineSpLearning, Q_Machine_Learning>>
      [] category = MachineLearningSp ->
            <<Q_Machine_Learning, Q_Machine_Learning, Q_MachineSpLearning, Q_Machine_Learning>>
      [] category = PrefixedCat ->
            <<Q_aB_c, Q_Ab_C, Q_AbSpC, Q_Ab_C>>

\* the namespace-0 titles a response lists
NsZeroTitles(r) ==
    LET ps == SelectSeq(r.members, LAMBDA m : m.ns = 0)
    IN  [j \in DOMAIN ps |-> ps[j].title]

\* a query yields when it comes back whole and lists a namespace-0 page
Yields(r) ==
    /\ r.kind = "json"
    /\ r.has_members
    /\ \A j \in DOMAIN r.members : r.members[j].has_ns
    /\ \E j \in DOMAIN r.members : r.members[j].ns = 0

\* C3: the queries sent are the four variants in order up to and including
\* the first that yields, whose namespace-0 pages are returned; when none
\* yields, all four are sent and the empty list is returned.
C3_FirstYieldingVariant ==
    ret.op = "pages" =>
        LET expected == ExpectedQueries(ret.category)
            yielding == {i \in 1..4 : Yields(ret.resp[i])}
        IN  IF yielding = {}
            THEN /\ ret.result.pages = <<>>
                 /\ ret.result.queries = expected
            ELSE LET first == CHOOSE i \in yielding : \A j \in yielding : i <= j
                 IN  /\ ret.result.pages = NsZeroTitles(ret.resp[first])
                     /\ ret.result.queries = SubSeq(expected, 1, first)

\* the third variant is the first to yield, after a failed request and a
\* list of subcategories only; the fourth would have yielded too
C3_Witness ==
    /\ ret.op = "pages"
    /\ ret.category = PrefixedCat
    /\ ret.resp = <<FailedRequest, OnlySubcategories, TwoPages, OnePage>>
    /\ ret.result.pages = <<"P1", "P2">>
    /\ ret.result.queries = <<Q_aB_c, Q_Ab_C, Q_AbSpC>>

(***************************************************************************)
(* get_page_content and analyze_category                                   *)
(***************************************************************************)

\* the plain-text extract of each page
PageText(title) ==
    CASE title = "P1" ->
            <<"C","a","t","s"," ","l","i","k","e"," ","c","a","t","s","."," ","D","o","g","s"," ","l","i","k","e"," ","c","a","t","s"," ","t","o","o",".">>
      [] title = "P2" ->
            <<"C","a","t","s"," ","a","n","d"," ","d","o","g","s"," ","a","r","e"," ","p","e","t","s",".">>
      [] title = "P3" ->
            <<"I"," ","l","i","k","e"," ","2"," ","b",".">>

\* What one extracts query may come back with: the page's extract, a page
\* entry without an extract, or a failure (no connection, a body that is
\* not JSON, a JSON body without query.pages).
Outcomes == {"extract", "no extract", "error"}

get_page_content(page_title, outcome) ==
    CASE outcome = "extract"    -> [raised |-> FALSE, text |-> PageText(page_title)]
      [] outcome = "no extract" -> [raised |-> FALSE, text |-> <<>>]
      [] outcome = "error"      -> [raised |-> TRUE, text |-> <<>>]

RECURSIVE FetchLoopMut(_, _, _, _, _)
FetchLoopMut(pages, outcomes, i, all_words, fetched) ==
    IF i > Len(pages)
    THEN [raised |-> FALSE, all_words |-> all_words, fetched |-> fetched]
    ELSE LET content == get_page_content(pages[i], outcomes[i])
         IN  IF content.raised
             THEN [raised |-> TRUE, all_words |-> all_words,
                   fetched |-> Append(fetched, pages[i])]
             ELSE FetchLoopMut(pages, outcomes, i + 1,
                               process_text(content.text),
                               Append(fetched, pages[i]))

\* the loop over the pages: outcomes[i] is what the i-th extracts query
\* comes back with, fetched the titles queried; an exception of
\* get_page_content leaves the loop and analyze_category
RECURSIVE FetchLoop(_, _, _, _, _)
FetchLoop(pages, outcomes, i, all_words, fetched) ==
    IF i > Len(pages)
    THEN [raised |-> FALSE, all_words |-> all_words, fetched |-> fetched]
    ELSE LET content == get_page_content(pages[i], outcomes[i])
         IN  IF content.raised
             THEN [raised |-> TRUE, all_words |-> all_words,
                   fetched |-> Append(fetched, pages[i])]
             ELSE FetchLoop(pages, outcomes, i + 1,
                            all_words \o process_text(content.text),
                            Append(fetched, pages[i]))

CacheResultMut(disk, category, word_counts, now) ==
    save_to_cache(disk, category, word_counts, now)

\* "Only cache if we actually found words"
CacheResult(disk, category, word_counts, now) ==
    IF word_counts # EmptyCounter
    THEN save_to_cache(disk, category, word_counts, now)
    ELSE disk

\* is_cached and cached_results and len(cached_results) > 0
CacheHit(r) == r.is_cached /\ ~r.is_none /\ Len(r.word_counts) > 0

(***************************************************************************)
(* The /analyze route of app.py.  One request is served at a time; it      *)
(* stops where the analyzer waits for Wikipedia: before the category       *)
(* queries and before the extracts queries.                                *)
(***************************************************************************)

MaxTopN == 2

TopNs == 0..MaxTopN

AnalyzeCategories == {MachineLearning, PrefixedCat, <<>>}

\* the answers the four category queries of one request may get
Worlds ==
    { <<TwoPages, FailedRequest, FailedRequest, FailedRequest>>,
      <<FailedRequest, NoMembersKey, WordlessPage, TwoPages>>,
      <<OnlySubcategories, BrokenMember, FailedRequest, OnePage>>,
      <<FailedRequest, NoMembersKey, OnlySubcategories, BrokenMember>> }

\* the files a request may find that no analysis wrote
AnalyzeDamagedFiles(c) == { ObjectFile(c, TsIso(0), WcAbsent) }

AnalyzeDisks ==
    InitialDisks(AnalyzeCategories \ {<<>>},
                 [c \in AnalyzeCategories \ {<<>>} |-> AnalyzeDamagedFiles(c)])

\* the response of /analyze, with what the request did on the way:
\* table is word_counts, fresh says that analyze_category computed it
Response(r, status, word_counts, top_words, source, fresh, pages, outcomes, fetched) ==
    [op |-> "analyze", category |-> r.category, top_n |-> r.top_n,
     use_cache |-> r.use_cache, status |-> status, words |-> top_words,
     source |-> source, total_words |-> Len(word_counts), table |-> word_counts,
     fresh |-> fresh, pages |-> pages, outcomes |-> outcomes, fetched |-> fetched]

\* lines 72-83: the top N words, or 404 when there are none
Respond(r, word_counts, source, fresh, pages, outcomes, fetched) ==
    LET top_words == most_common(word_counts, r.top_n)
    IN  IF top_words = <<>>
        THEN Response(r, 404, word_counts, <<>>, source, fresh, pages, outcomes, fetched)
        ELSE Response(r, 200, word_counts, top_words, source, fresh, pages, outcomes, fetched)

Init ==
    /\ clock = 0
    /\ cache \in AnalyzeDisks
    /\ pc = "idle"
    /\ req = NoRet
    /\ ret = NoRet
    /\ IdleWriters

\* time passes between two requests: long enough for every record to expire
Expire ==
    /\ pc \in {"idle", "done"}
    /\ clock + (RetentionDays + 1) * TicksPerDay <= MaxClock
    /\ clock' = clock + (RetentionDays + 1) * TicksPerDay
    /\ UNCHANGED <<cache, pc, req, ret, file, wpc, woff, rd>>

\* analyze, up to the first category query: the validation, the cache
\* look-up of the route, and the one of analyze_category
Request ==
    /\ pc \in {"idle", "done"}
    /\ \E c \in AnalyzeCategories, n \in TopNs, u \in BOOLEAN :
        LET r == [op |-> "request", category |-> c, top_n |-> n, use_cache |-> u]
            route == IF u THEN load_from_cache(cache, c, clock) ELSE Absent
            again == IF u THEN load_from_cache(cache, c, clock) ELSE Absent
        IN  IF c = <<>>
            THEN /\ pc' = "done"
                 /\ req' = NoRet
                 /\ ret' = Response(r, 400, EmptyCounter, <<>>, "", FALSE, <<>>, <<>>, <<>>)
            ELSE IF CacheHit(route)
            THEN /\ pc' = "done"
                 /\ req' = NoRet
                 /\ ret' = Respond(r, route.word_counts, "cache", FALSE, <<>>, <<>>, <<>>)
            ELSE IF CacheHit(again)
            THEN /\ pc' = "done"
                 /\ req' = NoRet
                 /\ ret' = Respond(r, again.word_counts, "fresh analysis", FALSE, <<>>, <<>>, <<>>)
            ELSE /\ pc' = "pages"
                 /\ req' = r
                 /\ ret' = NoRet
    /\ UNCHANGED <<clock, cache, file, wpc, woff, rd>>

\* analyze_category, from get_pages_in_category to the first extracts query
ResolvePages ==
    /\ pc = "pages"
    /\ \E resp \in Worlds :
        LET pages == get_pages_in_category(req.category, resp).pages
        IN  IF pages = <<>>
            THEN /\ pc' = "done"
                 /\ req' = NoRet
                 /\ ret' = Respond(req, EmptyCounter, "fresh analysis", TRUE, <<>>, <<>>, <<>>)
            ELSE /\ pc' = "content"
                 /\ req' = [op |-> "content", category |-> req.category,
                            top_n |-> req.top_n, use_cache |-> req.use_cache,
                            pages |-> pages]
                 /\ ret' = NoRet
    /\ UNCHANGED <<clock, cache, file, wpc, woff, rd>>

\* analyze_category, from the loop over the pages to its return, and the
\* rest of the route
FetchAndCount ==
    /\ pc = "content"
    /\ \E outcomes \in [1..Len(req.pages) -> Outcomes] :
        LET loop == FetchLoop(req.pages, outcomes, 1, <<>>, <<>>)
            word_counts == Counter(loop.all_words)
        IN  IF loop.raised
            THEN /\ cache' = cache
                 /\ ret' = Response(req, 500, EmptyCounter, <<>>, "", FALSE,
                                    req.pages, outcomes, loop.fetched)
            ELSE /\ cache' = CacheResult(cache, req.category, word_counts, clock)
                 /\ ret' = Respond(req, word_counts, "fresh analysis", TRUE,
                                   req.pages, outcomes, loop.fetched)
    /\ pc' = "done"
    /\ req' = NoRet
    /\ UNCHANGED <<clock, file, wpc, woff, rd>>

Next == Expire \/ Request \/ ResolvePages \/ FetchAndCount

Spec == Init /\ [][Next]_vars

(***************************************************************************)
(* Properties of the analysis                                              *)
(***************************************************************************)

\* the words of each page's text that are neither stop words nor single
\* letters, lower-cased, counted by hand
ExpectedTokens(title) ==
    CASE title = "P1" -> <<Cats, Cats, Dogs, Cats>>
      [] title = "P2" -> <<Cats, Dogs, Pets>>
      [] title = "P3" -> <<>>

Occurrences(w, words) == Cardinality({i \in DOMAIN words : words[i] = w})

\* the occurrences of w over the pages whose extract was read
RECURSIVE ExpectedCount(_, _, _, _)
ExpectedCount(w, pages, outcomes, i) ==
    IF i > Len(pages) THEN 0
    ELSE (IF outcomes[i] = "extract"
          THEN Occurrences(w, ExpectedTokens(pages[i]))
          ELSE 0)
         + ExpectedCount(w, pages, outcomes, i + 1)

Vocabulary == {Cats, Dogs, Pets, <<"b">>, <<"i">>, <<"l","i","k","e">>, <<"t","o","o">>}

CountsAsExpected(table, pages, outcomes) ==
    \A w \in Vocabulary \cup Keys(table) :
        CountOf(table, w) = ExpectedCount(w, pages, outcomes, 1)

\* an analysis that ran to the end of analyze_category's own computation
FreshlyComputed(r) == r.op = "analyze" /\ r.fresh /\ r.status \in {200, 404}

\* the scenario: "machine_learning", the cache not read, two pages read
Scenario(r) ==
    /\ FreshlyComputed(r)
    /\ r.category = MachineLearning
    /\ ~r.use_cache
    /\ r.pages = <<"P1", "P2">>
    /\ r.outcomes = <<"extract", "extract">>

\* C2 (as claimed): a page whose fetch fails is skipped; the other pages
\* are all fetched and counted, and the table is returned and cached.
C2_FailedPageIsSkipped ==
    (/\ ret.op = "analyze"
     /\ ret.pages # <<>>
     /\ \E i \in DOMAIN ret.outcomes : ret.outcomes[i] = "error")
        => /\ ret.status \in {200, 404}
           /\ ret.fetched = ret.pages
           /\ CountsAsExpected(ret.table, ret.pages, ret.outcomes)
           /\ ret.table # <<>> =>
                /\ get_cache_filename(ret.category) \in DOMAIN cache
                /\ cache[get_cache_filename(ret.category)].word_counts
                        = WcMapping(ret.table)

\* C5 (as claimed): the scenario yields {cats: 3, dogs: 2, pets: 1}.
C5_ScenarioAsClaimed ==
    Scenario(ret) => AsMap(ret.table) = (Cats :> 3 @@ Dogs :> 2 @@ Pets :> 1)

\* C5 (amended): the scenario yields {cats: 4, dogs: 2, pets: 1}, and the
\* count of every word in a computed table is the sum, over the pages read,
\* of its occurrences among the page's filtered lower-case words.
C5_Counts ==
    /\ Scenario(ret) => AsMap(ret.table) = (Cats :> 4 @@ Dogs :> 2 @@ Pets :> 1)
    /\ FreshlyComputed(ret) => CountsAsExpected(ret.table, ret.pages, ret.outcomes)

C5_Witness ==
    /\ Scenario(ret)
    /\ ret.status = 200
    /\ CountOf(ret.table, Cats) = 4

\* C8: a computation that reaches the end of analyze_category writes the
\* record of its category, with the whole table and the time of the write,
\* when the table is not empty, whatever use_cache and top_n are, and leaves
\* the cache alone when it is empty; no other step changes the cache, and no
\* file is ever written with an empty table.
C8_WritesIffNonEmpty ==
    [][ /\ (pc \in {"pages", "content"} /\ FreshlyComputed(ret')) =>
            LET k == get_cache_filename(ret'.category)
            IN  IF ret'.table # <<>>
                THEN /\ cache' = [j \in DOMAIN cache \cup {k} |->
                                    IF j = k
                                    THEN ObjectFile(ret'.category, TsIso(clock),
                                                    WcMapping(ret'.table))
                                    ELSE cache[j]]
                     /\ CountsAsExpected(cache'[k].word_counts.items,
                                         ret'.pages, ret'.outcomes)
                ELSE cache' = cache
        /\ cache' # cache =>
            /\ pc = "content"
            /\ FreshlyComputed(ret')
            /\ ret'.table # <<>>
        /\ \A j \in DOMAIN cache' :
            (j \notin DOMAIN cache \/ cache'[j] # cache[j]) =>
                /\ WellFormed(cache'[j])
                /\ cache'[j].word_counts.items # <<>>
      ]_vars

\* with use_cache false and top_n 1, a three-word table has replaced an
\* older record
C8_Witness ==
    /\ FreshlyComputed(ret)
    /\ ~ret.use_cache
    /\ ret.top_n = 1
    /\ Len(ret.words) = 1
    /\ Len(ret.table) = 3
    /\ clock > 0
    /\ cache[get_cache_filename(ret.category)]
            = ObjectFile(ret.category, TsIso(clock), WcMapping(ret.table))

\* the first n entries of the table in descending order of count
IsTopN(words, table, n) ==
    /\ Len(words) = (IF n < Len(table) THEN n ELSE Len(table))
    /\ \A i \in DOMAIN words : CountOf(table, words[i].word) = words[i].count
    /\ \A i \in DOMAIN words : \A w \in Keys(table) :
            (\A j \in DOMAIN words : words[j].word # w) => words[i].count >= CountOf(table, w)

\* C10 (as claimed): for a non-empty category, /analyze answers 404 only
\* when the table is empty; when it is not, it answers 200 with the top_n
\* words, the true source and the number of distinct words.
C10_NotFoundOnlyWhenEmpty ==
    (ret.op = "analyze" /\ ret.category # <<>> /\ ret.status # 500)
        => /\ ret.status = 404 => ret.table = <<>>
           /\ ret.table # <<>> =>
                /\ ret.status = 200
                /\ IsTopN(ret.words, ret.table, ret.top_n)
                /\ (ret.source = "cache") <=> ~ret.fresh
                /\ ret.total_words = Len(ret.table)

(***************************************************************************)
(* Concurrent calls on one cache file.  The server answers requests in     *)
(* threads, so two save_to_cache calls and a load_from_cache call on the   *)
(* same category may interleave between their file operations.  A record   *)
(* reaches the file in NChunks writes, one per flush of the file buffer.   *)
(***************************************************************************)

NChunks == 2

Hole == [by |-> "nobody", idx |-> 0]

\* write(2) of one chunk at the writer's own offset
WriteAt(chunks, i, c) ==
    [j \in 1..(IF i > Len(chunks) THEN i ELSE Len(chunks)) |->
        IF j = i THEN c
        ELSE IF j <= Len(chunks) THEN chunks[j]
        ELSE Hole]

\* the chunks all come from one save_to_cache call, and all are there
CompleteRecordOf(p, f) ==
    /\ f.exists
    /\ Len(f.chunks) = NChunks
    /\ \A i \in 1..NChunks : f.chunks[i] = [by |-> p, idx |-> i]

ConcInit ==
    /\ clock = 0
    /\ cache = <<>>
    /\ ret = NoRet
    /\ IdlePipeline
    /\ IdleWriters

\* open(cache_file, 'w'): the file is created, or cut to length 0
OpenForWrite(p) ==
    /\ wpc[p] \in {"idle", "closed"}
    /\ wpc' = [wpc EXCEPT ![p] = "open"]
    /\ woff' = [woff EXCEPT ![p] = 0]
    /\ file' = [exists |-> TRUE, chunks |-> <<>>]
    /\ UNCHANGED <<clock, cache, pc, req, ret, rd>>

\* json.dump: the next flush of the buffer
WriteChunk(p) ==
    /\ wpc[p] = "open"
    /\ woff[p] < NChunks
    /\ file' = [exists |-> TRUE,
                chunks |-> WriteAt(file.chunks, woff[p] + 1,
                                   [by |-> p, idx |-> woff[p] + 1])]
    /\ woff' = [woff EXCEPT ![p] = woff[p] + 1]
    /\ UNCHANGED <<clock, cache, pc, req, ret, wpc, rd>>

\* the end of the with block
CloseFile(p) ==
    /\ wpc[p] = "open"
    /\ woff[p] = NChunks
    /\ wpc' = [wpc EXCEPT ![p] = "closed"]
    /\ UNCHANGED <<clock, cache, pc, req, ret, file, woff, rd>>

\* load_from_cache: os.path.exists, open and json.load of what is there
ReadFile ==
    /\ rd' = IF ~file.exists THEN [op |-> "read", seen |-> "no file"]
             ELSE IF \E p \in Writers : CompleteRecordOf(p, file)
             THEN [op |-> "read", seen |-> "record"]
             ELSE [op |-> "read", seen |-> "not a record"]
    /\ UNCHANGED <<clock, cache, pc, req, ret, file, wpc, woff>>

ConcNext ==
    \/ \E p \in Writers : OpenForWrite(p)
    \/ \E p \in Writers : WriteChunk(p)
    \/ \E p \in Writers : CloseFile(p)
    \/ ReadFile

SpecConc == ConcInit /\ [][ConcNext]_vars

\* C7 (as claimed): the file is at every instant absent or one complete
\* record of a single save_to_cache call, and no reader sees anything else.
C7_FileAlwaysWhole ==
    /\ file.exists => \E p \in Writers : CompleteRecordOf(p, file)
    /\ rd.op = "read" => rd.seen \in {"no file", "record"}

====
